---- MODULE Spec2Model ----
(***************************************************************************)
(* Model of the load generator of illmade-knight/go-test, package loadgen: *)
(* LoadGenerator.Run, LoadGenerator.runDevice and                          *)
(* LoadGenerator.ExpectedMessagesForDuration (src/loadgen/generator.go),   *)
(* driven by a Client whose Connect and Publish outcomes are inputs.       *)
(*                                                                         *)
(* Time is an integer clock `now`, counted from the creation of the run    *)
(* context.  time.Second is `Second` clock units, so that the truncation   *)
(* of time.Duration(float64(time.Second) / rate) to a whole unit is part   *)
(* of the model.  Local computation takes no time: the clock advances only *)
(* when every goroutine is blocked (in a select with nothing ready, or     *)
(* inside a Publish call) and every timer that is due has fired.  Timers   *)
(* that are due at the same instant fire in either order, and a select     *)
(* with two ready cases takes either (as Go's select does).                *)
(***************************************************************************)
EXTENDS Integers, Sequences, FiniteSets

\* ---- bounds of the model ----
MaxDevices == 2
MaxDur == 4
MaxCallers == 2
MaxCalls == 2
MaxMsgs == 3

\* the range of int64, the type of Sequence.val (iterators.go:9), scaled to 4 bits
MinInt64 == -8
MaxInt64 == 7

\* time.Second in clock units (generator.go:47, generator.go:102)
Second == 4

\* the clock stops after the latest deadline; in-flight Publish calls return by then
MaxTime == MaxDur + 1

\* Device.MessageRate values, in Hz: negative, zero, and rates whose interval
\* is 2, 1 (truncated from 4/3) and 0 (truncated from 4/5) clock units
Rates == {-1, 0, 2, 3, 5}

Durations == -1..MaxDur

\* errors a Client can return
ConnErrs == {"connection failed", "broker timeout"}
PubErrs == {"nil", "publish error"}

VARIABLES
    devices,         \* lg.devices: sequence of MessageRate values
    publishedCount,  \* lg.publishedCount
    pc,              \* position of Run: "idle", "connect", "waiting", "returned", "crashed"
    dpc,             \* position of each device goroutine
    duration,        \* the duration argument of the current Run
    now,             \* clock, since the run context was created
    ctxDone,         \* runCtx.Done() is closed
    tickerC,         \* per device: number of ticks buffered in ticker.C (0 or 1)
    nextTick,        \* per device: the instant the ticker's next tick is due
    ret,             \* what the last Run returned: [count, err]
    \* ---- observations of the Client (what a mock records) ----
    connectCalls,    \* Connect calls of the current Run
    disconnectCalls, \* Disconnect calls of the current Run
    attempts,        \* per device: Publish calls started in the current Run
    okReturns,       \* Publish calls of the current Run that returned (true, nil)
    connErr,         \* the error Connect returned in the current Run, or "nil"
    callerCancelled, \* the caller has cancelled the context passed to Run
    slow,            \* the clock advanced while some Publish call was in flight
    \* ---- a call of ExpectedMessagesForDuration ----
    expArg,          \* the duration argument of the last call: <<D>>, or << >>
    expResult,       \* what the last call returned
    \* ---- a Sequence and its callers (iterators.go) ----
    seqStart,        \* the startValue given to NewSequence
    seqVal,          \* Sequence.val
    seqN,            \* the number of Next calls each caller makes
    seqPc,           \* per caller: "out" of Next, or "in" a call of Next
    seqGot,          \* per caller: the values its Next calls returned, in order
    \* ---- a ReplayPayloadGenerator and its callers (replaygenerator.go) ----
    repMessages,     \* r.messages: sequence of payloads
    repIndex,        \* r.index
    repMu,           \* r.mu: the set of callers that hold the mutex
    repPc,           \* per caller: "out", "locked" (before the check), "ok" (after it)
    repGot,          \* per caller: what its GeneratePayload calls returned, in order
    \* ---- the Publish calls of an MqttClient (interfaces.go:97-128) ----
    mqCall,          \* per device: [n, out], how far its n-th Publish call has got
    mqGen            \* GeneratePayload calls made by Publish calls so far

\* the variables of the load generator and of its Client
lgVars == <<devices, publishedCount, pc, dpc, duration, now, ctxDone, tickerC,
            nextTick, ret, connectCalls, disconnectCalls, attempts,
            okReturns, connErr, callerCancelled, slow>>

\* the variables of a call of ExpectedMessagesForDuration
expVars == <<expArg, expResult>>

\* the variables of a Sequence
seqVars == <<seqStart, seqVal, seqN, seqPc, seqGot>>

\* the variables of a ReplayPayloadGenerator
repVars == <<repMessages, repIndex, repMu, repPc, repGot>>

\* the variables of the Publish calls of an MqttClient
mqVars == <<mqCall, mqGen>>

\* what Run and runDevice never touch
aux == <<expVars, seqVars, repVars, mqVars>>

vars == <<lgVars, expVars, seqVars, repVars, mqVars>>

Dev == DOMAIN devices

\* the goroutines that call GeneratePayload on the ReplayPayloadGenerator
RepCallers == DOMAIN repPc

\* the goroutines that call Next on the Sequence
Callers == DOMAIN seqPc

\* interval := time.Duration(float64(time.Second) / device.MessageRate), for a
\* rate that is not 0: the conversion truncates toward zero to a whole clock unit
Interval(rate) ==
    IF rate > 0 THEN Second \div rate ELSE 0 - (Second \div (0 - rate))

\* variant of Inactive: only a rate of exactly 0 is skipped
Inactive_ZeroOnly(rate) == rate = 0

\* if device.MessageRate <= 0 (generator.go:97)
Inactive(rate) == rate <= 0

RECURSIVE SumExpected(_, _, _)
SumExpected(devs, i, d) ==
    IF i > Len(devs) THEN 0
    ELSE (IF devs[i] > 0
          THEN (IF Interval(devs[i]) > 0
                THEN 1 + (d \div Interval(devs[i]))
                ELSE 1)
          ELSE 0) + SumExpected(devs, i + 1, d)

\* variant of ExpectedMessagesForDuration: the ceiling of rate * duration, which
\* leaves out the message of a tick that falls on the end of the duration
ExpectedMessagesForDuration_Ceil(d) == SumExpected(devices, 1, d - 1)

\* LoadGenerator.ExpectedMessagesForDuration
ExpectedMessagesForDuration(d) == SumExpected(devices, 1, d)

Zeros == [d \in Dev |-> 0]

RECURSIVE SumUpTo(_, _)
SumUpTo(f, n) == IF n = 0 THEN 0 ELSE f[n] + SumUpTo(f, n - 1)

\* Publish calls started in the current Run, over all devices
TotalAttempts == SumUpTo(attempts, Len(devices))

\* every Publish call of the current Run has returned (true, nil)
AllPublishesOk == okReturns = TotalAttempts

TypeOK ==
    /\ devices \in UNION {[1..n -> Rates] : n \in 0..MaxDevices}
    /\ publishedCount \in Nat
    /\ pc \in {"idle", "connect", "waiting", "returned", "crashed"}
    /\ dpc \in [Dev -> {"none", "start", "inflight", "loop", "exited", "panicked"}]
    /\ duration \in Durations
    /\ now \in 0..MaxTime
    /\ ctxDone \in BOOLEAN
    /\ tickerC \in [Dev -> 0..1]
    /\ nextTick \in [Dev -> Nat]
    /\ ret \in [count : Nat, err : ConnErrs \cup {"nil", "none"}]
    /\ connectCalls \in 0..1
    /\ disconnectCalls \in 0..1
    /\ attempts \in [Dev -> 0..(MaxTime + 1)]
    /\ okReturns \in 0..TotalAttempts
    /\ connErr \in ConnErrs \cup {"nil"}
    /\ callerCancelled \in BOOLEAN
    /\ slow \in BOOLEAN
    /\ expArg \in {<< >>} \cup {<<D>> : D \in (0 - MaxDur)..MaxDur}
    /\ expResult \in Int
    /\ repMessages \in Seq({"p", "q"})
    /\ repIndex \in Nat
    /\ repMu \subseteq RepCallers
    /\ repPc \in UNION {[1..G -> {"out", "locked", "ok"}] : G \in 0..MaxCallers}
    /\ DOMAIN repGot = RepCallers
    /\ \A c \in RepCallers : Len(repGot[c]) <= MaxCalls
    /\ DOMAIN mqCall \in {{}, Dev}
    /\ \A d \in DOMAIN mqCall :
          /\ mqCall[d].n \in 0..attempts[d]
          /\ mqCall[d].out \in {"none", "ctx", "eof", "sent"}
    /\ mqGen \in Nat
    /\ seqStart \in MinInt64..MaxInt64
    /\ seqVal \in MinInt64..MaxInt64
    /\ seqN \in 0..MaxCalls
    /\ seqPc \in UNION {[1..G -> {"out", "in"}] : G \in 0..MaxCallers}
    /\ DOMAIN seqGot = Callers
    /\ \A c \in Callers : /\ Len(seqGot[c]) <= seqN
                           /\ \A n \in 1..Len(seqGot[c]) :
                                 seqGot[c][n] \in MinInt64..MaxInt64

\* NewLoadGenerator(client, devices, logger)
NewLoadGenerator ==
    /\ devices \in UNION {[1..n -> Rates] : n \in 0..MaxDevices}
    /\ publishedCount = 0
    /\ pc = "idle"
    /\ dpc = [d \in DOMAIN devices |-> "none"]
    /\ duration = 0
    /\ now = 0
    /\ ctxDone = FALSE
    /\ tickerC = [d \in DOMAIN devices |-> 0]
    /\ nextTick = [d \in DOMAIN devices |-> 0]
    /\ ret = [count |-> 0, err |-> "none"]
    /\ connectCalls = 0
    /\ disconnectCalls = 0
    /\ attempts = [d \in DOMAIN devices |-> 0]
    /\ okReturns = 0
    /\ connErr = "nil"
    /\ callerCancelled = FALSE
    /\ slow = FALSE

\* ExpectedMessagesForDuration has not been called
NoExpected ==
    /\ expArg = << >>
    /\ expResult = 0

\* no Sequence is in use
NoSequence ==
    /\ seqStart = 0
    /\ seqVal = 0
    /\ seqN = 0
    /\ seqPc = << >>
    /\ seqGot = << >>

\* no ReplayPayloadGenerator and no MqttClient is in use
NoReplay ==
    /\ repMessages = << >>
    /\ repIndex = 0
    /\ repMu = {}
    /\ repPc = << >>
    /\ repGot = << >>
    /\ mqCall = << >>
    /\ mqGen = 0

Init ==
    /\ NewLoadGenerator
    /\ NoExpected
    /\ NoSequence
    /\ NoReplay

\* variant of RunStart: the counter is not reset when Run starts
RunStart_NoReset(D, cancelled) ==
    /\ pc \in {"idle", "returned"}
    /\ UNCHANGED aux
    /\ duration' = D
    /\ callerCancelled' = cancelled
    /\ pc' = "connect"
    /\ dpc' = [d \in Dev |-> "none"]
    /\ now' = 0
    /\ ctxDone' = FALSE
    /\ tickerC' = Zeros
    /\ nextTick' = Zeros
    /\ ret' = [count |-> 0, err |-> "none"]
    /\ connectCalls' = 0
    /\ disconnectCalls' = 0
    /\ attempts' = Zeros
    /\ okReturns' = 0
    /\ connErr' = "nil"
    /\ slow' = FALSE
    /\ UNCHANGED <<devices, publishedCount>>

\* Run, up to the call of Connect: the counter is reset (generator.go:62).
\* D is the duration argument, cancelled tells whether ctx is already cancelled.
\* A LoadGenerator is reused: Run can be called again once it has returned.
RunStart(D, cancelled) ==
    /\ pc \in {"idle", "returned"}
    /\ UNCHANGED aux
    /\ publishedCount' = 0
    /\ duration' = D
    /\ callerCancelled' = cancelled
    /\ pc' = "connect"
    /\ dpc' = [d \in Dev |-> "none"]
    /\ now' = 0
    /\ ctxDone' = FALSE
    /\ tickerC' = Zeros
    /\ nextTick' = Zeros
    /\ ret' = [count |-> 0, err |-> "none"]
    /\ connectCalls' = 0
    /\ disconnectCalls' = 0
    /\ attempts' = Zeros
    /\ okReturns' = 0
    /\ connErr' = "nil"
    /\ slow' = FALSE
    /\ UNCHANGED devices

\* variant of ConnectFail: Disconnect is deferred before Connect is checked
ConnectFail_DefersDisconnect(e) ==
    /\ pc = "connect"
    /\ UNCHANGED aux
    /\ connectCalls' = connectCalls + 1
    /\ disconnectCalls' = disconnectCalls + 1
    /\ connErr' = e
    /\ ret' = [count |-> 0, err |-> e]
    /\ pc' = "returned"
    /\ UNCHANGED <<devices, publishedCount, dpc, duration, now, ctxDone, tickerC,
                   nextTick, attempts, okReturns, callerCancelled, slow>>

\* Run: Connect returns err != nil (generator.go:65-68)
ConnectFail(e) ==
    /\ pc = "connect"
    /\ UNCHANGED aux
    /\ connectCalls' = connectCalls + 1
    /\ connErr' = e
    /\ ret' = [count |-> 0, err |-> e]
    /\ pc' = "returned"
    /\ UNCHANGED <<devices, publishedCount, dpc, duration, now, ctxDone, tickerC,
                   nextTick, disconnectCalls, attempts, okReturns, callerCancelled, slow>>

\* Run: Connect returns nil; context.WithTimeout(ctx, duration) is done at once
\* when the duration is not positive or the parent is already cancelled; one
\* goroutine is started per device; Run then blocks in wg.Wait (generator.go:65-83)
ConnectOk ==
    /\ pc = "connect"
    /\ UNCHANGED aux
    /\ connectCalls' = connectCalls + 1
    /\ now' = 0
    /\ ctxDone' = (duration <= 0 \/ callerCancelled)
    /\ dpc' = [d \in Dev |-> "start"]
    /\ pc' = "waiting"
    /\ UNCHANGED <<devices, publishedCount, duration, tickerC, nextTick, ret, disconnectCalls, attempts, okReturns, connErr,
                   callerCancelled, slow>>

\* variant of RunDeviceStart: the task of a device with a rate <= 0 returns
\* only when the run context is done
RunDeviceStart_InactiveWaits(d) ==
    /\ pc = "waiting"
    /\ UNCHANGED aux
    /\ dpc[d] = "start"
    /\ Inactive(devices[d]) => ctxDone
    /\ IF Inactive(devices[d])
       THEN /\ dpc' = [dpc EXCEPT ![d] = "exited"]
            /\ UNCHANGED <<pc, nextTick, attempts>>
       ELSE IF Interval(devices[d]) <= 0
       THEN /\ dpc' = [dpc EXCEPT ![d] = "panicked"]
            /\ pc' = "crashed"
            /\ UNCHANGED <<nextTick, attempts>>
       ELSE IF ctxDone
       THEN /\ dpc' = [dpc EXCEPT ![d] = "exited"]
            /\ UNCHANGED <<pc, nextTick, attempts>>
       ELSE /\ dpc' = [dpc EXCEPT ![d] = "inflight"]
            /\ nextTick' = [nextTick EXCEPT ![d] = now + Interval(devices[d])]
            /\ attempts' = [attempts EXCEPT ![d] = @ + 1]
            /\ UNCHANGED pc
    /\ UNCHANGED <<devices, publishedCount, duration, now, ctxDone, tickerC, ret,
                   connectCalls, disconnectCalls, okReturns,
                   connErr, callerCancelled, slow>>

\* runDevice up to its first Publish call (generator.go:96-115): a rate <= 0
\* returns; time.NewTicker panics on a non-positive interval, which ends the
\* process; a context that is already done returns; otherwise Publish is called.
RunDeviceStart(d) ==
    /\ pc = "waiting"
    /\ UNCHANGED aux
    /\ dpc[d] = "start"
    /\ IF Inactive(devices[d])
       THEN /\ dpc' = [dpc EXCEPT ![d] = "exited"]
            /\ UNCHANGED <<pc, nextTick, attempts>>
       ELSE IF Interval(devices[d]) <= 0
       THEN /\ dpc' = [dpc EXCEPT ![d] = "panicked"]
            /\ pc' = "crashed"
            /\ UNCHANGED <<nextTick, attempts>>
       ELSE IF ctxDone
       THEN /\ dpc' = [dpc EXCEPT ![d] = "exited"]
            /\ UNCHANGED <<pc, nextTick, attempts>>
       ELSE /\ dpc' = [dpc EXCEPT ![d] = "inflight"]
            /\ nextTick' = [nextTick EXCEPT ![d] = now + Interval(devices[d])]
            /\ attempts' = [attempts EXCEPT ![d] = @ + 1]
            /\ UNCHANGED pc
    /\ UNCHANGED <<devices, publishedCount, duration, now, ctxDone, tickerC, ret,
                   connectCalls, disconnectCalls, okReturns,
                   connErr, callerCancelled, slow>>

\* variant of Counted: the error is not looked at
Counted_IgnoresErr(count, success, err) ==
    IF success THEN count + 1 ELSE count

\* variant of Counted: a Publish error takes a success back
Counted_UndoOnError(count, success, err) ==
    IF err # "nil" THEN count - 1
    ELSE IF success THEN count + 1
    ELSE count

\* the counter after a Publish call returned (success, err)
\* (generator.go:115-119, generator.go:131-135)
Counted(count, success, err) ==
    IF err # "nil" THEN count
    ELSE IF success THEN count + 1
    ELSE count

\* a Publish call of device d returns (success, err): the counter becomes
\* count and the device goes on to the position next
PublishReturnTo(d, success, err, count, next) ==
    /\ pc = "waiting"
    /\ UNCHANGED aux
    /\ dpc[d] = "inflight"
    /\ publishedCount' = count
    /\ okReturns' = IF success /\ err = "nil" THEN okReturns + 1 ELSE okReturns
    /\ dpc' = [dpc EXCEPT ![d] = next]
    /\ UNCHANGED <<devices, pc, duration, now, ctxDone, tickerC, nextTick, ret,
                   connectCalls, disconnectCalls, attempts, connErr,
                   callerCancelled, slow>>

\* variant of PublishReturn: the increment is a plain read and write, and is
\* lost when another device is inside its own Publish call
PublishReturn_LostUpdate(d, success, err) ==
    PublishReturnTo(d, success, err,
                    IF \E o \in Dev \ {d} : dpc[o] = "inflight"
                    THEN publishedCount
                    ELSE Counted(publishedCount, success, err),
                    "loop")

\* variant of PublishReturn: a Publish error ends the device loop
PublishReturn_ExitsOnError(d, success, err) ==
    PublishReturnTo(d, success, err, Counted(publishedCount, success, err),
                    IF err # "nil" THEN "exited" ELSE "loop")

\* variant of PublishReturn: the outcome of a call that returns after the run
\* context is done is dropped
PublishReturn_DropsAfterDone(d, success, err) ==
    PublishReturnTo(d, success, err,
                    IF ctxDone THEN publishedCount
                    ELSE Counted(publishedCount, success, err),
                    "loop")

\* a Publish call of device d returns (success, err); the device goes on to the
\* select of its loop (generator.go:115-124, generator.go:131-136)
PublishReturn(d, success, err) ==
    PublishReturnTo(d, success, err, Counted(publishedCount, success, err), "loop")

\* select, case <-ctx.Done(): the device returns, its ticker is stopped
\* (generator.go:104, generator.go:125-128)
SelectDone(d) ==
    /\ pc = "waiting"
    /\ UNCHANGED aux
    /\ dpc[d] = "loop"
    /\ ctxDone
    /\ dpc' = [dpc EXCEPT ![d] = "exited"]
    /\ tickerC' = [tickerC EXCEPT ![d] = 0]
    /\ UNCHANGED <<devices, publishedCount, pc, duration, now, ctxDone, nextTick, ret,
                   connectCalls, disconnectCalls, attempts, okReturns, connErr, callerCancelled, slow>>

\* variant of SelectTick: each tick starts its Publish call in a task of its
\* own, also while the previous call has not returned
SelectTick_Async(d) ==
    /\ pc = "waiting"
    /\ UNCHANGED aux
    /\ dpc[d] \in {"loop", "inflight"}
    /\ tickerC[d] > 0
    /\ tickerC' = [tickerC EXCEPT ![d] = 0]
    /\ attempts' = [attempts EXCEPT ![d] = @ + 1]
    /\ dpc' = [dpc EXCEPT ![d] = "inflight"]
    /\ UNCHANGED <<devices, publishedCount, pc, duration, now, ctxDone, nextTick, ret,
                   connectCalls, disconnectCalls, okReturns,
                   connErr, callerCancelled, slow>>

\* select, case <-ticker.C: the tick is received and Publish is called
\* (generator.go:129-131)
SelectTick(d) ==
    /\ pc = "waiting"
    /\ UNCHANGED aux
    /\ dpc[d] = "loop"
    /\ tickerC[d] > 0
    /\ tickerC' = [tickerC EXCEPT ![d] = 0]
    /\ attempts' = [attempts EXCEPT ![d] = @ + 1]
    /\ dpc' = [dpc EXCEPT ![d] = "inflight"]
    /\ UNCHANGED <<devices, publishedCount, pc, duration, now, ctxDone, nextTick, ret,
                   connectCalls, disconnectCalls, okReturns,
                   connErr, callerCancelled, slow>>

\* the ticker of device d is running
TickerActive(d) == dpc[d] \in {"inflight", "loop"}

\* the ticker of device d has a tick that is due
TickDue(d) == TickerActive(d) /\ now >= nextTick[d]

\* the timer of context.WithTimeout is due
DeadlineDue == ~ctxDone /\ now >= duration

\* variant of TickFire: ticker.C queues every tick that is not received yet
TickFire_Queues(d) ==
    /\ pc = "waiting"
    /\ UNCHANGED aux
    /\ TickDue(d)
    /\ tickerC' = [tickerC EXCEPT ![d] = @ + 1]
    /\ nextTick' = [nextTick EXCEPT ![d] = @ + Interval(devices[d])]
    /\ UNCHANGED <<devices, publishedCount, pc, dpc, duration, now, ctxDone, ret, connectCalls, disconnectCalls, attempts, okReturns, connErr, callerCancelled, slow>>

\* the runtime delivers a tick of device d's ticker: ticker.C holds one tick,
\* a tick that finds it full is dropped (time.NewTicker, generator.go:103)
TickFire(d) ==
    /\ pc = "waiting"
    /\ UNCHANGED aux
    /\ TickDue(d)
    /\ tickerC' = [tickerC EXCEPT ![d] = 1]
    /\ nextTick' = [nextTick EXCEPT ![d] = @ + Interval(devices[d])]
    /\ UNCHANGED <<devices, publishedCount, pc, dpc, duration, now, ctxDone, ret, connectCalls, disconnectCalls, attempts, okReturns, connErr, callerCancelled, slow>>

\* the timeout of the run context fires (generator.go:71)
DeadlineFire ==
    /\ pc = "waiting"
    /\ UNCHANGED aux
    /\ DeadlineDue
    /\ ctxDone' = TRUE
    /\ UNCHANGED <<devices, publishedCount, pc, dpc, duration, now, tickerC, nextTick,
                   ret, connectCalls, disconnectCalls, attempts, okReturns, connErr, callerCancelled, slow>>

\* the caller cancels the context it passed to Run; the run context, its
\* child, is done with it (generator.go:71)
CallerCancel ==
    /\ pc = "waiting"
    /\ UNCHANGED aux
    /\ ~callerCancelled
    /\ callerCancelled' = TRUE
    /\ ctxDone' = TRUE
    /\ UNCHANGED <<devices, publishedCount, pc, dpc, duration, now, tickerC, nextTick,
                   ret, connectCalls, disconnectCalls, attempts, okReturns, connErr, slow>>

\* device d is blocked: inside Publish, in a select with no ready case, or gone
Blocked(d) ==
    \/ dpc[d] \in {"inflight", "exited"}
    \/ dpc[d] = "loop" /\ ~ctxDone /\ tickerC[d] = 0

\* the clock advances by one unit
Advance ==
    /\ pc = "waiting"
    /\ UNCHANGED aux
    /\ now < MaxTime
    /\ ~DeadlineDue
    /\ \A d \in Dev : Blocked(d) /\ ~TickDue(d)
    /\ \E d \in Dev : dpc[d] # "exited"
    /\ now' = now + 1
    /\ slow' = (slow \/ \E d \in Dev : dpc[d] = "inflight")
    /\ UNCHANGED <<devices, publishedCount, pc, dpc, duration, ctxDone, tickerC,
                   nextTick, ret, connectCalls, disconnectCalls, attempts,
                   okReturns, connErr, callerCancelled>>

\* Run returns (count, err) after wg.Wait, calling Disconnect `disconnects`
\* times; the deferred cancel ends the run context
RunReturnAs(count, err, disconnects) ==
    /\ pc = "waiting"
    /\ UNCHANGED aux
    /\ \A d \in Dev : dpc[d] = "exited"
    /\ ret' = [count |-> count, err |-> err]
    /\ disconnectCalls' = disconnectCalls + disconnects
    /\ ctxDone' = TRUE
    /\ pc' = "returned"
    /\ UNCHANGED <<devices, publishedCount, dpc, duration, now, tickerC, nextTick,
                   connectCalls, attempts, okReturns, connErr, callerCancelled, slow>>

\* variant of RunReturn: Disconnect is skipped when the caller has cancelled
RunReturn_SkipsDisconnect ==
    RunReturnAs(publishedCount, "nil", IF callerCancelled THEN 0 ELSE 1)

\* variant of RunReturn: the context error is returned when the caller has cancelled
RunReturn_ReturnsCtxErr ==
    RunReturnAs(publishedCount,
                IF callerCancelled THEN "context canceled" ELSE "nil", 1)

\* variant of RunReturn: Run waits for the run context, not for the device tasks
RunReturn_OnDone ==
    /\ pc = "waiting"
    /\ UNCHANGED aux
    /\ ctxDone
    /\ ret' = [count |-> publishedCount, err |-> "nil"]
    /\ disconnectCalls' = disconnectCalls + 1
    /\ pc' = "returned"
    /\ UNCHANGED <<devices, publishedCount, dpc, duration, now, ctxDone, tickerC,
                   nextTick, connectCalls, attempts, okReturns, connErr,
                   callerCancelled, slow>>

\* variant of RunReturn: Run reads the counter without waiting for the device
\* tasks
RunReturn_NoWait ==
    /\ pc = "waiting"
    /\ UNCHANGED aux
    /\ ret' = [count |-> publishedCount, err |-> "nil"]
    /\ disconnectCalls' = disconnectCalls + 1
    /\ ctxDone' = TRUE
    /\ pc' = "returned"
    /\ UNCHANGED <<devices, publishedCount, dpc, duration, now, tickerC, nextTick,
                   connectCalls, attempts, okReturns, connErr, callerCancelled, slow>>

\* Run after wg.Wait: the counter is read, the deferred cancel and Disconnect
\* run, and Run returns (finalCount, nil) (generator.go:83-87, 69, 72)
RunReturn == RunReturnAs(publishedCount, "nil", 1)

Next ==
    \/ \E D \in Durations, c \in BOOLEAN : RunStart(D, c)
    \/ \E e \in ConnErrs : ConnectFail(e)
    \/ ConnectOk
    \/ \E d \in Dev : RunDeviceStart(d)
    \/ \E d \in Dev, s \in BOOLEAN, e \in PubErrs : PublishReturn(d, s, e)
    \/ \E d \in Dev : SelectDone(d)
    \/ \E d \in Dev : SelectTick(d)
    \/ \E d \in Dev : TickFire(d)
    \/ DeadlineFire
    \/ CallerCancel
    \/ Advance
    \/ RunReturn

Spec == Init /\ [][Next]_vars

\* what the scheduler and the client guarantee: a call of Connect returns, a
\* started goroutine runs and takes a ready case of its select, a Publish call returns, a timer that is due fires,
\* time passes, and Run goes on when wg.Wait is over; a select whose
\* <-ctx.Done() case is ready again and again takes it in the end (Go's select
\* chooses among its ready cases at random)
Fairness ==
    /\ WF_vars(ConnectOk \/ \E e \in ConnErrs : ConnectFail(e))
    /\ \A d \in 1..MaxDevices :
          /\ WF_vars(d \in Dev /\ RunDeviceStart(d))
          /\ WF_vars(d \in Dev /\ \E s \in BOOLEAN, e \in PubErrs : PublishReturn(d, s, e))
          /\ WF_vars(d \in Dev /\ SelectTick(d))
          /\ SF_vars(d \in Dev /\ SelectDone(d))
          /\ WF_vars(d \in Dev /\ TickFire(d))
    /\ WF_vars(DeadlineFire)
    /\ WF_vars(Advance)
    /\ WF_vars(RunReturn)

\* the runs of Spec in which the scheduler and the client are fair
SpecLive == Init /\ [][Next]_vars /\ Fairness

\* the generator right after a Run of 1 unit has returned 2: two devices, each
\* published once at t=0 and left on the deadline; the counter still holds 2
\* (generator.go:84-86)
AfterEarlierRun ==
    /\ devices = <<2, 3>>
    /\ publishedCount = 2
    /\ pc = "returned"
    /\ dpc = <<"exited", "exited">>
    /\ duration = 1
    /\ now = 1
    /\ ctxDone = TRUE
    /\ tickerC = <<0, 0>>
    /\ nextTick = <<2, 1>>
    /\ ret = [count |-> 2, err |-> "nil"]
    /\ connectCalls = 1
    /\ disconnectCalls = 1
    /\ attempts = <<1, 1>>
    /\ okReturns = 2
    /\ connErr = "nil"
    /\ callerCancelled = FALSE
    /\ slow = FALSE

\* a generator that has already been used for a Run
InitReuse ==
    /\ AfterEarlierRun
    /\ NoExpected
    /\ NoSequence
    /\ NoReplay

\* sequential Run calls on a generator that has been used before
SpecReuse == InitReuse /\ [][Next]_vars

\* a call lg.ExpectedMessagesForDuration(D) on a generator no Run is using
\* (generator.go:41-58): it reads the devices and returns the total
CallExpected(D) ==
    /\ pc \in {"idle", "returned"}
    /\ expArg' = <<D>>
    /\ expResult' = ExpectedMessagesForDuration(D)
    /\ UNCHANGED <<lgVars, seqVars, repVars, mqVars>>

\* the duration argument is any time.Duration, negative ones down to the
\* longest duration negated
NextExpected == \E D \in (0 - MaxDur)..MaxDur : CallExpected(D)

\* a new generator, or one that has been used for a Run
InitExpected ==
    /\ NewLoadGenerator \/ AfterEarlierRun
    /\ NoExpected
    /\ NoSequence
    /\ NoReplay

\* calls of ExpectedMessagesForDuration
SpecExpected == InitExpected /\ [][NextExpected]_vars

\* variant of Wrap: the result of an addition or subtraction stops at the
\* ends of the int64 range
Wrap_Saturates(x) ==
    IF x > MaxInt64 THEN MaxInt64 ELSE IF x < MinInt64 THEN MinInt64 ELSE x

\* int64 arithmetic: the result of an addition or subtraction wraps around
Wrap(x) == ((x - MinInt64) % (MaxInt64 - MinInt64 + 1)) + MinInt64

\* variant of NewSequence: the start value itself is stored
NewSequence_StoresStart(startValue) == startValue

\* NewSequence(startValue): the value stored in Sequence.val (iterators.go:14-17)
NewSequence(startValue) == Wrap(startValue - 1)

\* a Sequence made by NewSequence, and 1..MaxCallers goroutines that are each
\* going to call Next seqN times; no load generator is involved
InitSeq ==
    /\ NewLoadGenerator
    /\ devices = << >>
    /\ NoExpected
    /\ NoReplay
    /\ seqStart \in MinInt64..MaxInt64
    /\ seqVal = NewSequence(seqStart)
    /\ seqN \in 1..MaxCalls
    /\ \E G \in 1..MaxCallers :
          /\ seqPc = [c \in 1..G |-> "out"]
          /\ seqGot = [c \in 1..G |-> << >>]

\* caller c calls Next
SeqEnter(c) ==
    /\ seqPc[c] = "out"
    /\ Len(seqGot[c]) < seqN
    /\ seqPc' = [seqPc EXCEPT ![c] = "in"]
    /\ UNCHANGED <<lgVars, expVars, repVars, mqVars, seqStart, seqVal, seqN, seqGot>>

\* variant of SeqNext: the increment is a plain read and write, and the write
\* is lost when another caller is inside Next
SeqNext_LostUpdate(c) ==
    /\ seqPc[c] = "in"
    /\ seqVal' = IF \E o \in Callers \ {c} : seqPc[o] = "in"
                 THEN seqVal
                 ELSE Wrap(seqVal + 1)
    /\ seqGot' = [seqGot EXCEPT ![c] = Append(@, Wrap(seqVal + 1))]
    /\ seqPc' = [seqPc EXCEPT ![c] = "out"]
    /\ UNCHANGED <<lgVars, expVars, repVars, mqVars, seqStart, seqN>>

\* return atomic.AddInt64(&s.val, 1): the value is incremented and the new
\* value returned in one atomic step (iterators.go:21-23)
SeqNext(c) ==
    /\ seqPc[c] = "in"
    /\ seqVal' = Wrap(seqVal + 1)
    /\ seqGot' = [seqGot EXCEPT ![c] = Append(@, seqVal')]
    /\ seqPc' = [seqPc EXCEPT ![c] = "out"]
    /\ UNCHANGED <<lgVars, expVars, repVars, mqVars, seqStart, seqN>>

NextSeq == \E c \in Callers : SeqEnter(c) \/ SeqNext(c)

\* concurrent callers of one Sequence
SpecSeq == InitSeq /\ [][NextSeq]_vars

\* the payloads a replay list is made of
Payloads == {"p", "q"}

\* what GeneratePayload returns when the list is used up: (nil, io.EOF)
\* (replaygenerator.go:33-36); pos records the position handed out, -1 for none
Exhausted == [payload |-> "nil", err |-> "EOF", pos |-> -1]

\* what GeneratePayload returns with the cursor at index: the payload at the
\* cursor and a nil error (replaygenerator.go:37-39); indexing past the end of
\* the slice is a run-time panic
Replayed(index) ==
    IF index < Len(repMessages)
    THEN [payload |-> repMessages[index + 1], err |-> "nil", pos |-> index]
    ELSE [payload |-> "nil", err |-> "index out of range", pos |-> index]

\* NewReplayPayloadGenerator(messages) (replaygenerator.go:19-24), and
\* 1..MaxCallers goroutines that are each going to call GeneratePayload up to
\* MaxCalls times; no load generator is involved
InitReplay ==
    /\ NewLoadGenerator
    /\ devices = << >>
    /\ NoExpected
    /\ NoSequence
    /\ repMessages \in UNION {[1..k -> Payloads] : k \in 0..MaxMsgs}
    /\ repIndex = 0
    /\ repMu = {}
    /\ mqCall = << >>
    /\ mqGen = 0
    /\ \E G \in 1..MaxCallers :
          /\ repPc = [c \in 1..G |-> "out"]
          /\ repGot = [c \in 1..G |-> << >>]

\* variant of RepLock: GeneratePayload does not take the mutex
RepLock_NoMutex(c) ==
    /\ repPc[c] = "out"
    /\ Len(repGot[c]) < MaxCalls
    /\ repMu' = repMu \cup {c}
    /\ repPc' = [repPc EXCEPT ![c] = "locked"]
    /\ UNCHANGED <<lgVars, expVars, seqVars, mqVars, repMessages, repIndex, repGot>>

\* caller c calls GeneratePayload: r.mu.Lock() (replaygenerator.go:30)
RepLock(c) ==
    /\ repPc[c] = "out"
    /\ Len(repGot[c]) < MaxCalls
    /\ repMu = {}
    /\ repMu' = {c}
    /\ repPc' = [repPc EXCEPT ![c] = "locked"]
    /\ UNCHANGED <<lgVars, expVars, seqVars, mqVars, repMessages, repIndex, repGot>>

\* if r.index >= len(r.messages): with the list used up the call returns
\* (nil, io.EOF), leaving the cursor at index, and the deferred Unlock runs
RepCheckTo(c, index) ==
    /\ repPc[c] = "locked"
    /\ IF repIndex >= Len(repMessages)
       THEN /\ repGot' = [repGot EXCEPT ![c] = Append(@, Exhausted)]
            /\ repIndex' = index
            /\ repMu' = repMu \ {c}
            /\ repPc' = [repPc EXCEPT ![c] = "out"]
       ELSE /\ repPc' = [repPc EXCEPT ![c] = "ok"]
            /\ UNCHANGED <<repGot, repIndex, repMu>>
    /\ UNCHANGED <<lgVars, expVars, seqVars, mqVars, repMessages>>

\* variant of RepCheck: an exhausted call still moves the cursor
RepCheck_AdvancesOnEOF(c) == RepCheckTo(c, repIndex + 1)

\* the check of GeneratePayload (replaygenerator.go:33-36)
RepCheck(c) == RepCheckTo(c, repIndex)

\* payload := r.messages[r.index]; r.index++; return payload, nil, and the
\* deferred Unlock runs; the cursor becomes index
RepTakeTo(c, index) ==
    /\ repPc[c] = "ok"
    /\ repGot' = [repGot EXCEPT ![c] = Append(@, Replayed(repIndex))]
    /\ repIndex' = index
    /\ repMu' = repMu \ {c}
    /\ repPc' = [repPc EXCEPT ![c] = "out"]
    /\ UNCHANGED <<lgVars, expVars, seqVars, mqVars, repMessages>>

\* variant of RepTake: the cursor wraps around to the start of the list
RepTake_Wraps(c) == RepTakeTo(c, (repIndex + 1) % Len(repMessages))

\* the successful return of GeneratePayload (replaygenerator.go:37-39)
RepTake(c) == RepTakeTo(c, repIndex + 1)

NextReplay == \E c \in RepCallers : RepLock(c) \/ RepCheck(c) \/ RepTake(c)

\* concurrent callers of one ReplayPayloadGenerator
SpecReplay == InitReplay /\ [][NextReplay]_vars

\* what the broker does with a message handed to it: it acknowledges it, the
\* token carries an error, or no answer comes within the 2 seconds Publish
\* waits (interfaces.go:113-127)
Acks == {"ack", "error", "timeout"}

\* rates whose interval is positive
TickingRates == {r \in Rates : r > 0 /\ Interval(r) > 0}

\* a new generator whose client is an MqttClient and whose devices all have
\* the same ReplayPayloadGenerator, built over 0..MaxMsgs payloads
InitMqtt ==
    /\ NewLoadGenerator
    /\ devices \in UNION {[1..n -> TickingRates] : n \in 1..MaxDevices}
    /\ NoExpected
    /\ NoSequence
    /\ repMessages \in {[i \in 1..k |-> "p"] : k \in 0..MaxMsgs}
    /\ repIndex = 0
    /\ repMu = {}
    /\ repPc = << >>
    /\ repGot = << >>
    /\ mqCall = [d \in DOMAIN devices |-> [n |-> 0, out |-> "none"]]
    /\ mqGen = 0

\* Run is called once, with a positive duration and a context that is not
\* cancelled yet
MqttRunStart(D) ==
    /\ pc = "idle"
    /\ D > 0
    /\ RunStart(D, FALSE)

\* variant of MqttBegin: the payload is generated before the context is
\* looked at
MqttBegin_GeneratesFirst(d) ==
    /\ pc = "waiting"
    /\ dpc[d] = "inflight"
    /\ mqCall[d].n < attempts[d]
    /\ mqGen' = mqGen + 1
    /\ repIndex' = IF repIndex >= Len(repMessages) THEN repIndex ELSE repIndex + 1
    /\ mqCall' = [mqCall EXCEPT ![d] =
                     [n |-> attempts[d],
                      out |-> IF ctxDone THEN "ctx"
                              ELSE IF repIndex >= Len(repMessages) THEN "eof"
                              ELSE "sent"]]
    /\ UNCHANGED <<lgVars, expVars, seqVars, repMessages, repMu, repPc, repGot>>

\* the Publish call that device d has just made runs up to the hand-over to
\* the broker (interfaces.go:99-109): with the context done it is about to
\* return (false, ctx.Err()) and the generator is not called; otherwise
\* GeneratePayload is called, which either reports the list used up, and the
\* call is about to return (false, error), or moves the cursor on
MqttBegin(d) ==
    /\ pc = "waiting"
    /\ dpc[d] = "inflight"
    /\ mqCall[d].n < attempts[d]
    /\ IF ctxDone
       THEN /\ mqCall' = [mqCall EXCEPT ![d] = [n |-> attempts[d], out |-> "ctx"]]
            /\ UNCHANGED <<repIndex, mqGen>>
       ELSE /\ mqGen' = mqGen + 1
            /\ IF repIndex >= Len(repMessages)
               THEN /\ mqCall' = [mqCall EXCEPT ![d] = [n |-> attempts[d], out |-> "eof"]]
                    /\ UNCHANGED repIndex
               ELSE /\ mqCall' = [mqCall EXCEPT ![d] = [n |-> attempts[d], out |-> "sent"]]
                    /\ repIndex' = repIndex + 1
    /\ UNCHANGED <<lgVars, expVars, seqVars, repMessages, repMu, repPc, repGot>>

\* variant of MqttReturn: a used-up replay list ends the device's loop
MqttReturn_StopsOnEOF(d, ack) ==
    /\ dpc[d] = "inflight"
    /\ mqCall[d].n = attempts[d]
    /\ \/ /\ mqCall[d].out = "ctx"
          /\ ack = "error"
          /\ PublishReturn(d, FALSE, "context error")
       \/ /\ mqCall[d].out = "eof"
          /\ ack = "error"
          /\ PublishReturnTo(d, FALSE, "generate error", publishedCount, "exited")
       \/ /\ mqCall[d].out = "sent"
          /\ ack = "ack"
          /\ PublishReturn(d, TRUE, "nil")
       \/ /\ mqCall[d].out = "sent"
          /\ ack # "ack"
          /\ PublishReturn(d, FALSE, "publish error")

\* the Publish call of device d returns: (false, error) for a done context, a
\* failed GeneratePayload, a token error or a timeout, and (true, nil) for an
\* acknowledged message (interfaces.go:100, 105, 113-127)
MqttReturn(d, ack) ==
    /\ dpc[d] = "inflight"
    /\ mqCall[d].n = attempts[d]
    /\ \/ /\ mqCall[d].out = "ctx"
          /\ ack = "error"
          /\ PublishReturn(d, FALSE, "context error")
       \/ /\ mqCall[d].out = "eof"
          /\ ack = "error"
          /\ PublishReturn(d, FALSE, "generate error")
       \/ /\ mqCall[d].out = "sent"
          /\ ack = "ack"
          /\ PublishReturn(d, TRUE, "nil")
       \/ /\ mqCall[d].out = "sent"
          /\ ack # "ack"
          /\ PublishReturn(d, FALSE, "publish error")

\* the clock advances: only a Publish call that waits for the broker lets
\* time pass
MqttAdvance ==
    /\ \A d \in Dev :
          dpc[d] = "inflight" => mqCall[d].n = attempts[d] /\ mqCall[d].out = "sent"
    /\ Advance

NextMqtt ==
    \/ \E D \in Durations : MqttRunStart(D)
    \/ \E e \in ConnErrs : ConnectFail(e)
    \/ ConnectOk
    \/ \E d \in Dev : RunDeviceStart(d)
    \/ \E d \in Dev : MqttBegin(d)
    \/ \E d \in Dev, a \in Acks : MqttReturn(d, a)
    \/ \E d \in Dev : SelectDone(d)
    \/ \E d \in Dev : SelectTick(d)
    \/ \E d \in Dev : TickFire(d)
    \/ DeadlineFire
    \/ CallerCancel
    \/ MqttAdvance
    \/ RunReturn

\* one Run of a generator that publishes replayed payloads through an MqttClient
SpecMqtt == InitMqtt /\ [][NextMqtt]_vars

\* ------------------------------------------------------------------------
\* Properties
\* ------------------------------------------------------------------------

\* Run has returned after a successful Connect
ReturnedOk == pc = "returned" /\ connErr = "nil"

\* the run was undisturbed: the caller did not cancel, every Publish call
\* returned (true, nil), and none of them took any time
Undisturbed == ~callerCancelled /\ AllPublishesOk /\ ~slow

\* C1: with a single device of rate R > 0, a duration D > 0, no cancellation by
\* the caller and every Publish returning (true, nil), Run returns exactly
\* 1 + floor(D / interval), interval being 1s / R.  (Stated here for runs in
\* which, moreover, no Publish call takes any time.)
C1_SingleDeviceCount ==
    (/\ ReturnedOk
     /\ Len(devices) = 1
     /\ devices[1] > 0
     /\ duration > 0
     /\ Undisturbed)
    => ret.count = 1 + (duration \div Interval(devices[1]))

\* C2: for every set of devices and every duration D > 0, when every Publish
\* succeeds and the caller never cancels, the count Run returns equals
\* ExpectedMessagesForDuration(D) of the same LoadGenerator.  (Stated here for
\* runs in which, moreover, no Publish call takes any time.)
C2_RunMatchesExpected ==
    (ReturnedOk /\ duration > 0 /\ Undisturbed)
    => ret.count = ExpectedMessagesForDuration(duration)

\* C3: when Connect returns an error, Run returns (0, that error) at once: no
\* device task is started, Publish is never called, Disconnect is never called.
C3_ConnectFailure ==
    connErr # "nil" =>
        /\ pc = "returned"
        /\ ret = [count |-> 0, err |-> connErr]
        /\ connectCalls = 1
        /\ disconnectCalls = 0
        /\ \A d \in Dev : dpc[d] = "none" /\ attempts[d] = 0

C3_Witness ==
    /\ connErr = "broker timeout"
    /\ pc = "returned"
    /\ Len(devices) = 2
    /\ \A d \in Dev : devices[d] > 0
    /\ duration > 0

\* C4: once Connect has succeeded, Disconnect has been called exactly once
\* when Run returns, and not before the device tasks have all exited, on every
\* path (publishes succeeding or failing, deadline, cancellation by the caller).
C4_DisconnectOnce ==
    /\ ReturnedOk => connectCalls = 1 /\ disconnectCalls = 1
    /\ pc \in {"connect", "waiting"} => disconnectCalls = 0

C4_Witness ==
    /\ ReturnedOk
    /\ disconnectCalls = 1
    /\ callerCancelled
    /\ duration > 0
    /\ TotalAttempts >= 2
    /\ 0 < okReturns /\ okReturns < TotalAttempts

\* C5: a Publish return adds exactly 1 to the success counter if and only if it
\* returned (true, nil); a return of false, or of any error, leaves the counter
\* unchanged.
C5_CountsOnlySuccess ==
    [][\A d \in Dev :
         (dpc[d] = "inflight" /\ dpc'[d] # "inflight") =>
            /\ okReturns' \in {okReturns, okReturns + 1}
            /\ publishedCount' = publishedCount + (okReturns' - okReturns)]_vars

C5_Witness ==
    /\ pc = "waiting"
    /\ TotalAttempts >= 3
    /\ publishedCount = 1
    /\ \A d \in Dev : dpc[d] = "loop"

\* C6: with any number of devices publishing concurrently, the count Run
\* returns is the number of Publish calls, over all devices, that returned
\* (true, nil) in that run, in every interleaving: no update of the counter is
\* lost or made twice.
C6_CountIsTotalSuccesses ==
    /\ pc \in {"waiting", "crashed"} => publishedCount = okReturns
    /\ ReturnedOk => ret.count = okReturns

C6_Witness ==
    /\ ReturnedOk
    /\ Len(devices) = 2
    /\ \A d \in Dev : attempts[d] >= 2
    /\ ret.count >= 3
    /\ ret.count < TotalAttempts
    /\ slow

\* C7: a device task with rate > 0 exits only on seeing the run context done:
\* whatever a Publish call returns, the task goes back to its select, and from
\* the select it leaves only to return (context done) or to publish once more.
C7_ExitsOnlyOnDone ==
    [][\A d \in Dev :
         /\ (dpc[d] = "inflight" /\ dpc'[d] # "inflight") => dpc'[d] = "loop"
         /\ (dpc[d] = "loop" /\ dpc'[d] # "loop") =>
               \/ dpc'[d] = "exited" /\ ctxDone
               \/ dpc'[d] = "inflight" /\ attempts'[d] = attempts[d] + 1
         /\ (~Inactive(devices[d]) /\ dpc[d] # "exited" /\ dpc'[d] = "exited")
               => ctxDone]_vars

C7_Witness ==
    /\ Len(devices) = 1
    /\ dpc[1] = "inflight"
    /\ attempts[1] >= 3
    /\ okReturns = 0
    /\ ~ctxDone

\* C8: Run returns a nil error whenever Connect succeeded, also when every
\* publish failed and when the caller cancelled before the duration elapsed;
\* the only error Run returns is the error of Connect.
C8_OnlyConnectError ==
    pc = "returned" => ret.err = connErr

C8_Witness ==
    /\ ReturnedOk
    /\ ret.err = "nil"
    /\ callerCancelled
    /\ now < duration
    /\ TotalAttempts >= 2
    /\ okReturns = 0

\* every device of the LoadGenerator has a rate <= 0
NoActiveDevice == \A d \in Dev : devices[d] <= 0

\* Publish calls started in the current Run by devices with a rate > 0
RECURSIVE ActiveAttempts(_)
ActiveAttempts(n) ==
    IF n = 0 THEN 0
    ELSE (IF devices[n] > 0 THEN attempts[n] ELSE 0) + ActiveAttempts(n - 1)

\* C9: a device with MessageRate <= 0 never calls Publish and adds nothing to
\* the count Run returns, while Connect and Disconnect are still called once
\* each.
C9_InactiveDevice ==
    /\ \A d \in Dev : devices[d] <= 0 =>
          attempts[d] = 0 /\ dpc[d] \in {"none", "start", "exited"}
    /\ NoActiveDevice => pc # "crashed"
    /\ ReturnedOk =>
          /\ ret.count <= ActiveAttempts(Len(devices))
          /\ connectCalls = 1
          /\ disconnectCalls = 1

C9_Witness ==
    /\ ReturnedOk
    /\ Len(devices) = 2
    /\ devices[1] < 0
    /\ devices[2] = 0
    /\ duration > 0
    /\ ~callerCancelled
    /\ ret = [count |-> 0, err |-> "nil"]

\* C10: a Run with duration <= 0 and a successful Connect makes no publish
\* attempt from any device, whatever the device rates, and returns (0, nil).
C10_NonPositiveDuration ==
    (duration <= 0 /\ connErr = "nil" /\ pc \in {"waiting", "returned", "crashed"}) =>
        /\ \A d \in Dev : attempts[d] = 0
        /\ pc # "crashed"
        /\ pc = "returned" => ret = [count |-> 0, err |-> "nil"]

\* C11: when a tick and the end of the run context fall on the same instant
\* (the duration is an exact multiple of the interval) the tick is always
\* honoured: a single device, undisturbed, makes 1 + D / interval publishes
\* (3 for 1Hz and 2s) in every execution.
C11_TieHonoured ==
    (/\ ReturnedOk
     /\ Len(devices) = 1
     /\ devices[1] > 0
     /\ duration > 0
     /\ duration % Interval(devices[1]) = 0
     /\ Undisturbed)
    => ret.count = 1 + (duration \div Interval(devices[1]))

\* C12: for a deadline one clock unit before the tick at twice the interval
\* (1Hz and 2s - 1ns), a single device, undisturbed, still makes 3 publishes.
C12_JustBeforeTick ==
    (/\ ReturnedOk
     /\ Len(devices) = 1
     /\ devices[1] > 0
     /\ Interval(devices[1]) >= 2
     /\ duration = 2 * Interval(devices[1]) - 1
     /\ Undisturbed)
    => ret.count = 3

\* C13: a Publish call that is in flight when the run context becomes done
\* returns and its outcome is recorded in the counter; a device task that has
\* seen the context done starts no further Publish; and once every device task
\* has seen it the counter does not increase any more.
C13_InFlightCompletes ==
    [][/\ \A d \in Dev :
            /\ (dpc[d] = "inflight" /\ ctxDone /\ dpc'[d] # "inflight") =>
                  /\ dpc'[d] = "loop"
                  /\ publishedCount' = publishedCount + (okReturns' - okReturns)
            /\ (dpc[d] = "exited" /\ pc' # "connect") =>
                  /\ dpc'[d] = "exited"
                  /\ attempts'[d] = attempts[d]
       /\ (pc \in {"waiting", "returned"} /\ \A d \in Dev : dpc[d] = "exited") =>
             publishedCount' <= publishedCount]_vars

\* the only Publish call of the device started at t=0, was in flight when the
\* deadline fired, returned (true, nil) later and was counted
C13_Witness ==
    /\ pc = "waiting"
    /\ Len(devices) = 1
    /\ dpc[1] = "loop"
    /\ ctxDone
    /\ ~callerCancelled
    /\ duration > 0
    /\ now > duration
    /\ attempts[1] = 1
    /\ publishedCount = 1

\* C14: Run returns only after every device task it started has exited: when
\* Run has returned (Connect having succeeded) no device task is running or
\* inside a Publish call, and the value returned is the final value of the
\* counter, the number of (true, nil) returns of the run.
C14_RunWaitsForDevices ==
    ReturnedOk =>
        /\ \A d \in Dev : dpc[d] = "exited"
        /\ ret.count = publishedCount
        /\ ret.count = okReturns

\* two active devices, both with slow Publish calls, have exited before Run
\* returned their total
C14_Witness ==
    /\ ReturnedOk
    /\ Len(devices) = 2
    /\ \A d \in Dev : attempts[d] >= 1 /\ dpc[d] = "exited"
    /\ slow
    /\ ret.count >= 2

\* C15: a device has at most one Publish call in flight: a new attempt of a
\* device starts only in a step taken while no Publish call of that device is
\* in flight, and it is one attempt at a time, whatever the latency of Publish.
C15_OneInFlight ==
    [][\A d \in Dev :
          (pc' # "connect" /\ attempts'[d] # attempts[d]) =>
              /\ dpc[d] # "inflight"
              /\ dpc'[d] = "inflight"
              /\ attempts'[d] = attempts[d] + 1]_vars

\* the first Publish call of a device is still in flight two intervals after
\* it started: a tick is waiting in the ticker's channel and no second attempt
\* has started
C15_Witness ==
    \E d \in Dev :
        /\ dpc[d] = "inflight"
        /\ attempts[d] = 1
        /\ tickerC[d] = 1
        /\ now >= 2 * Interval(devices[d])
        /\ ~ctxDone

\* C16: on a generator that has been used before, a Run starts with the
\* counter at 0; the count it returns is the number of successful publishes of
\* that run alone, and a Run whose Connect fails returns 0 and leaves the
\* counter at 0.
C16_ReuseResets ==
    /\ pc = "connect" => publishedCount = 0
    /\ ReturnedOk => ret.count = okReturns /\ publishedCount = okReturns
    /\ (pc = "returned" /\ connErr # "nil") => ret.count = 0 /\ publishedCount = 0

\* after the earlier run that returned 2, a run in which one of two Publish
\* calls succeeded has returned 1
C16_Witness ==
    /\ ReturnedOk
    /\ attempts = <<1, 1>>
    /\ okReturns = 1
    /\ ret.count = 1

\* C17: a call ExpectedMessagesForDuration(D) returns the sum over the devices
\* of: 0 for a rate <= 0, 1 for a positive rate whose interval truncates to 0,
\* and otherwise 1 + floor(D / interval), that is the number c with
\* (c - 1) * interval <= D < c * interval; and the call changes neither the
\* devices nor the success counter.
C17_ExpectedClosedForm ==
    [][expArg' # expArg =>
          LET D == expArg'[1]
              I(d) == Interval(devices[d])
              Count(d) ==
                  IF devices[d] <= 0 THEN 0
                  ELSE IF I(d) = 0 THEN 1
                  ELSE CHOOSE c \in (0 - MaxDur - 1)..(MaxDur + 1) :
                           (c - 1) * I(d) <= D /\ D < c * I(d)
          IN /\ expResult' = SumUpTo([d \in Dev |-> Count(d)], Len(devices))
             /\ devices' = devices
             /\ publishedCount' = publishedCount]_vars

\* the expectation for 3 units has been computed on the generator whose counter
\* an earlier run left at 2: 1 + floor(3/2) for the first device and
\* 1 + floor(3/1) for the second, whose interval is truncated from 4/3 to 1
C17_Witness ==
    /\ devices = <<2, 3>>
    /\ publishedCount = 2
    /\ expArg = <<3>>
    /\ expResult = 6

\* C18: a device with a positive rate whose interval truncates to zero is
\* special-cased by its task: the task does not panic, Run does not crash, and
\* when Run has returned from an undisturbed run of positive duration the
\* device has published exactly once.
C18_ZeroIntervalHandled ==
    \A d \in Dev :
        (devices[d] > 0 /\ Interval(devices[d]) = 0) =>
            /\ dpc[d] # "panicked"
            /\ pc # "crashed"
            /\ (ReturnedOk /\ duration > 0 /\ Undisturbed) => attempts[d] = 1

\* C19: when Next is called sequentially (by one caller) on a Sequence made by
\* NewSequence(S), the n-th call returns S + n - 1 in int64 arithmetic, which
\* is the number S + n - 1 itself as long as that is an int64; the first call
\* returns S.
C19_SequentialValues ==
    Len(seqPc) = 1 =>
        \A n \in 1..Len(seqGot[1]) :
            /\ seqGot[1][n] = Wrap(seqStart + n - 1)
            /\ seqStart + n - 1 <= MaxInt64 => seqGot[1][n] = seqStart + n - 1

\* one caller has called Next twice on a Sequence started at 3
C19_Witness ==
    /\ Len(seqPc) = 1
    /\ seqStart = 3
    /\ seqGot[1] = <<3, 4>>

\* C20: with G callers calling Next concurrently on one Sequence started at S,
\* the values returned so far are the first values of S, S+1, ... (in int64
\* arithmetic), each returned exactly once; in particular, when each caller
\* has made its N calls, they are exactly S, ..., S + G*N - 1.
C20_ConcurrentValues ==
    LET R == SumUpTo([c \in Callers |-> Len(seqGot[c])], Len(seqPc))
        Returned == {<<c, n>> \in Callers \X (1..MaxCalls) : n <= Len(seqGot[c])}
    IN /\ {seqGot[r[1]][r[2]] : r \in Returned} = {Wrap(seqStart + k) : k \in 0..(R - 1)}
       /\ \A r, q \in Returned : seqGot[r[1]][r[2]] = seqGot[q[1]][q[2]] => r = q
       /\ (\A c \in Callers : Len(seqGot[c]) = seqN) => R = Len(seqPc) * seqN

\* two callers have each called Next twice, their calls interleaved
C20_Witness ==
    /\ seqStart = 0
    /\ seqN = 2
    /\ seqPc = <<"out", "out">>
    /\ seqGot = << <<0, 3>>, <<1, 2>> >>

\* C21: when GeneratePayload is called sequentially (by one caller) on a
\* generator built over K payloads, the i-th call returns the i-th payload of
\* the list with a nil error for i <= K, and (nil, io.EOF) for every i > K;
\* with K = 0 the first call already does. No payload is handed out again.
C21_ReplayInOrder ==
    Len(repPc) = 1 =>
        \A i \in 1..Len(repGot[1]) :
            repGot[1][i] =
                IF i <= Len(repMessages)
                THEN [payload |-> repMessages[i], err |-> "nil", pos |-> i - 1]
                ELSE Exhausted

\* one caller has called twice on a list of one payload: the payload, then
\* the exhausted condition
C21_Witness ==
    /\ Len(repPc) = 1
    /\ repMessages = <<"q">>
    /\ repGot[1] = <<[payload |-> "q", err |-> "nil", pos |-> 0], Exhausted>>

\* C29: the cursor of a ReplayPayloadGenerator stays within 0..len(messages)
\* and never decreases; a GeneratePayload call that returns a payload advances
\* it by exactly 1, a call that returns the exhausted condition leaves it
\* unchanged, and the message list never changes.
C29_CursorBounds ==
    [][/\ 0 <= repIndex /\ repIndex <= Len(repMessages)
       /\ 0 <= repIndex' /\ repIndex' <= Len(repMessages')
       /\ repIndex' >= repIndex
       /\ repMessages' = repMessages
       /\ \A c \in RepCallers :
             Len(repGot'[c]) > Len(repGot[c]) =>
                 LET r == repGot'[c][Len(repGot'[c])]
                 IN IF r.err = "nil"
                    THEN repIndex' = repIndex + 1
                    ELSE r = Exhausted /\ repIndex' = repIndex]_vars

\* a list of two payloads has been used up and a caller has been told so
C29_Witness ==
    /\ Len(repMessages) = 2
    /\ repIndex = 2
    /\ \E c \in RepCallers : \E i \in 1..Len(repGot[c]) : repGot[c][i] = Exhausted

\* C30: with several callers of one generator of K payloads, after C completed
\* calls exactly min(C, K) of them have returned a payload; these hold the
\* positions 0..min(C, K) - 1, each handed to one call only and each with the
\* payload of its position, and every other call returned the exhausted
\* condition.
C30_SharedReplay ==
    LET Calls == {<<c, i>> \in RepCallers \X (1..MaxCalls) : i <= Len(repGot[c])}
        Ok == {r \in Calls : repGot[r[1]][r[2]].err = "nil"}
        C == Cardinality(Calls)
        K == Len(repMessages)
        M == IF C < K THEN C ELSE K
    IN /\ Cardinality(Ok) = M
       /\ {repGot[r[1]][r[2]].pos : r \in Ok} = 0..(M - 1)
       /\ \A r, q \in Ok : repGot[r[1]][r[2]].pos = repGot[q[1]][q[2]].pos => r = q
       /\ \A r \in Ok : repGot[r[1]][r[2]].payload = repMessages[repGot[r[1]][r[2]].pos + 1]
       /\ \A r \in Calls \ Ok : repGot[r[1]][r[2]] = Exhausted

\* two callers have shared a list of three payloads, their calls interleaved:
\* the fourth call found the list used up
C30_Witness ==
    /\ Len(repPc) = 2
    /\ Len(repMessages) = 3
    /\ Len(repGot[1]) = 2
    /\ Len(repGot[2]) = 2
    /\ repGot[1][1].pos = 0
    /\ repGot[2][1].pos = 1
    /\ repGot[1][2].pos = 2
    /\ repGot[2][2] = Exhausted

\* C22 (as stated): in a run in which the devices make more Publish attempts
\* than the replay list has payloads, and the broker acknowledges every message
\* handed to it, Run returns exactly the number of payloads in the list.
C22_ExactlyK ==
    (/\ ReturnedOk
     /\ Len(devices) = 1
     /\ okReturns = repIndex
     /\ TotalAttempts > Len(repMessages))
    => ret.count = Len(repMessages)

\* C22 (amended): the attempts that matter are those that reach the payload
\* generator, which an attempt started with the run context already done does
\* not. The cursor is the smaller of the number of GeneratePayload calls and
\* the number K of payloads; a Publish call that found the list used up (or the
\* context done) returns without being counted and the device goes back to
\* waiting for its next tick; and when Run has returned from a run with more
\* than K GeneratePayload calls in which the broker acknowledged every message
\* handed to it, the count returned is exactly K.
C22_ExhaustionIsFailedAttempt ==
    [][/\ repIndex' = IF mqGen' < Len(repMessages) THEN mqGen' ELSE Len(repMessages)
       /\ \A d \in Dev :
             (/\ dpc[d] = "inflight"
              /\ dpc'[d] # "inflight"
              /\ mqCall[d].out \in {"eof", "ctx"}) =>
                 /\ publishedCount' = publishedCount
                 /\ dpc'[d] = "loop"
       /\ (/\ ReturnedOk'
           /\ okReturns' = repIndex'
           /\ mqGen' > Len(repMessages)) =>
              ret'.count = Len(repMessages)]_vars

\* a device with a list of one payload has made three attempts before the
\* deadline, all of which reached the generator, and Run has returned 1
C22_Witness ==
    /\ ReturnedOk
    /\ Len(devices) = 1
    /\ Len(repMessages) = 1
    /\ ~callerCancelled
    /\ attempts[1] >= 3
    /\ mqGen >= 3
    /\ ret.count = 1

\* C23: once Connect has succeeded, Run eventually returns: the run context
\* becomes done, every device task takes its context-done branch and exits,
\* and Run returns.
C23_RunTerminates == (pc = "waiting") ~> (pc = "returned")

\* C24: within one Run the success counter is never negative and never
\* decreases: every step other than the reset at the start of Run leaves the
\* counter as it is or increases it by exactly 1.
C24_CounterMonotone ==
    [][/\ publishedCount >= 0
       /\ publishedCount' >= 0
       /\ pc' # "connect" =>
             \/ publishedCount' = publishedCount
             \/ publishedCount' = publishedCount + 1]_vars

\* a run in which the counter has grown to 2 and a later Publish call has
\* failed without changing it
C24_Witness ==
    /\ pc = "waiting"
    /\ publishedCount = 2
    /\ okReturns = 2
    /\ \E d \in Dev : dpc[d] = "loop" /\ attempts[d] = 3
    /\ TotalAttempts = 3

\* C25: as documented on runDevice, a device with rate R (whose interval is an
\* exact number of clock units) sends exactly ceil(R * D) messages in an
\* undisturbed run of duration D > 0.
C25_CeilOfRateTimesDuration ==
    (/\ ReturnedOk
     /\ Len(devices) = 1
     /\ devices[1] > 0
     /\ Second % devices[1] = 0
     /\ duration > 0
     /\ Undisturbed)
    => ret.count = (devices[1] * duration + Second - 1) \div Second

\* C26: within one Run the client is called in the order Connect, Publish
\* calls, Disconnect: Connect is called at most once, a Publish call starts
\* only after Connect has returned without error and before Disconnect, and
\* Disconnect is called once, when Connect has returned and no Publish call of
\* any device is in flight.
C26_CallOrder ==
    [][/\ connectCalls' <= 1
       /\ \A d \in Dev :
             attempts'[d] > attempts[d] =>
                 /\ connectCalls = 1
                 /\ connErr = "nil"
                 /\ disconnectCalls = 0
                 /\ disconnectCalls' = 0
       /\ disconnectCalls' > disconnectCalls =>
             /\ disconnectCalls' = 1
             /\ connectCalls = 1
             /\ \A d \in Dev : dpc[d] # "inflight"
             /\ \A d \in Dev : attempts'[d] = attempts[d]]_vars

\* Run has returned after Connect, at least three Publish calls of two devices
\* and Disconnect
C26_Witness ==
    /\ ReturnedOk
    /\ Len(devices) = 2
    /\ TotalAttempts >= 3
    /\ connectCalls = 1
    /\ disconnectCalls = 1

\* C27: a device task that starts with the run context already done leaves
\* without a publish attempt and Run goes on; and a Run in which no device has
\* made an attempt for this reason returns (0, nil) after one Connect and one
\* Disconnect.
C27_DoneAtStart ==
    [][/\ \A d \in Dev :
             (pc = "waiting" /\ dpc[d] = "start" /\ ctxDone /\ dpc'[d] # "start") =>
                 /\ dpc'[d] = "exited"
                 /\ attempts' = attempts
                 /\ pc' = "waiting"
       /\ (pc = "waiting" /\ ctxDone /\ TotalAttempts = 0 /\ pc' = "returned") =>
             /\ ret' = [count |-> 0, err |-> "nil"]
             /\ connectCalls' = 1
             /\ disconnectCalls' = 1]_vars

\* C28 (a consequence of the independence of device tasks): what a device does
\* in a Run does not depend on the other devices of the fleet. A device with a
\* positive interval, in a Run of positive duration whose context the caller
\* does not cancel, makes its t=0 attempt and has exited when the Run is over,
\* whatever the rates, the number and the publish outcomes of the other devices.
C28_Independent ==
    \A d \in Dev :
        (/\ devices[d] > 0
         /\ Interval(devices[d]) > 0
         /\ duration > 0
         /\ ~callerCancelled
         /\ connErr = "nil"
         /\ pc \in {"returned", "crashed"})
        => attempts[d] >= 1 /\ dpc[d] = "exited"

\* C31: every Next on a Sequence returns a value strictly greater than every
\* value returned by a Next that completed earlier on the same instance, for
\* every start value, the minimum int64 and a value reaching the maximum int64
\* included. (A call that completed before this one began made its atomic add
\* before this one's, so the values returned before a call's add include
\* those of every call that completed earlier.)
C31_AlwaysIncreasing ==
    [][\A c \in Callers :
          seqGot'[c] # seqGot[c] =>
              \A o \in Callers : \A n \in 1..Len(seqGot[o]) :
                  seqGot[o][n] < seqVal']_vars

\* C31, as the code has it: Next returns the value before it plus 1 in int64
\* arithmetic. As long as no Next has returned the maximum int64, each Next
\* returns a value strictly greater than every value returned earlier, also
\* when the start value is the minimum int64 (the first Next then returns the
\* minimum int64). The Next after the one that returned the maximum int64
\* returns the minimum int64, which is smaller than every value returned
\* earlier.
C31_IncreasingUntilMaxInt64 ==
    [][\A c \in Callers :
          seqGot'[c] # seqGot[c] =>
              LET Before == UNION {{seqGot[o][n] : n \in 1..Len(seqGot[o])} : o \in Callers}
              IN /\ seqGot'[c] = Append(seqGot[c], seqVal')
                 /\ seqVal < MaxInt64 => seqVal' = seqVal + 1
                 /\ MaxInt64 \notin Before => \A v \in Before : v < seqVal'
                 /\ (seqVal = MaxInt64 /\ Before # {}) =>
                        /\ seqVal' = MinInt64
                        /\ \A v \in Before : seqVal' < v
                 /\ (seqVal = MaxInt64 /\ Before = {}) =>
                        /\ seqStart = MinInt64
                        /\ seqVal' = MinInt64]_vars

\* two callers of a Sequence started at the maximum int64 minus 1: the values
\* returned were 6, then the maximum int64, then the minimum int64
C31_Witness ==
    /\ seqStart = MaxInt64 - 1
    /\ seqPc = <<"out", "out">>
    /\ seqGot = << <<MaxInt64 - 1, MinInt64>>, <<MaxInt64>> >>

\* C32: MqttClient.Publish called with an already-done context returns
\* (false, ctx.Err()) without calling the PayloadGenerator and without sending
\* anything. A call that finds the context done leaves the replay cursor and
\* the number of GeneratePayload calls as they are and hands nothing to the
\* broker; when it returns, it returns (false, error) and the counter of
\* successes is not incremented. The run context stays done once it is done,
\* so every attempt the scheduler starts after that is such a call.
C32_DoneContextPublish ==
    [][/\ ctxDone => ctxDone'
       /\ \A d \in Dev :
             /\ (ctxDone /\ mqCall'[d] # mqCall[d]) =>
                    /\ mqCall'[d] = [n |-> attempts[d], out |-> "ctx"]
                    /\ repIndex' = repIndex
                    /\ mqGen' = mqGen
             /\ (/\ dpc[d] = "inflight"
                 /\ mqCall[d] = [n |-> attempts[d], out |-> "ctx"]
                 /\ dpc'[d] # "inflight") =>
                    /\ publishedCount' = publishedCount
                    /\ okReturns' = okReturns
                    /\ repIndex' = repIndex
                    /\ mqGen' = mqGen]_vars

\* a device's second attempt was made with the context done and has returned;
\* the replay list still has payloads and only one of them was handed out
C32_Witness ==
    \E d \in Dev :
        /\ ctxDone
        /\ attempts[d] = 2
        /\ mqCall[d] = [n |-> 2, out |-> "ctx"]
        /\ dpc[d] # "inflight"
        /\ repIndex = 1
        /\ mqGen = 1
        /\ Len(repMessages) > 1
        /\ publishedCount = 1

C34_NoActiveDeviceReturnsAtOnce ==
    (NoActiveDevice /\ connErr = "nil" /\ pc \in {"waiting", "returned"}) =>
        /\ now = 0
        /\ TotalAttempts = 0
        /\ connectCalls = 1
        /\ pc = "waiting" =>
              /\ disconnectCalls = 0
              /\ ENABLED (RunReturn \/ \E d \in Dev : RunDeviceStart(d))
        /\ pc = "returned" =>
              /\ ret = [count |-> 0, err |-> "nil"]
              /\ disconnectCalls = 1
              /\ ctxDone

\* Run has returned at time 0 from a run of the longest duration over two
\* devices of rate <= 0; the timeout never fired and the caller did not cancel
C34_Witness ==
    /\ ReturnedOk
    /\ devices = <<0, -1>>
    /\ duration = MaxDur
    /\ ~callerCancelled
    /\ now = 0
    /\ ret = [count |-> 0, err |-> "nil"]
    /\ ctxDone

\* C35: for every duration D <= 0 and every device set,
\* ExpectedMessagesForDuration(D) returns 0, the number of messages Run
\* produces for such a duration; in particular the value is never negative.
C35_ZeroForNonPositiveDuration ==
    (expArg # << >> /\ expArg[1] <= 0) =>
        expResult = 0

====
